---- MODULE Spec2Model ----
(***************************************************************************)
(* A model of lemmy_db/src/views/comment_view.rs: the CommentView joined   *)
(* row, CommentView::read, and CommentQueryBuilder (create, the twelve     *)
(* setters, list) with the row decoder CommentView::to_vec.                *)
(*                                                                         *)
(* The store is a record of tables (sets of rows).  An Option<T> is a      *)
(* sequence of length 0 (None / SQL NULL) or 1 (Some(x)).  Time is counted *)
(* in hours.                                                               *)
(***************************************************************************)
EXTENDS Integers, Sequences, FiniteSets, TLC

VARIABLES
  db,        \* the store: one set of rows per table
  now,       \* history: the storage layer's clock when list's query was evaluated (SQL now)
  pc,        \* "idle" | "building" | "done"
  op,        \* the entry point that ran: "none" | "list" | "read"
  builder,   \* the CommentQueryBuilder being configured (NoBuilder when none)
  passed,    \* history: the last value passed to each setter (its default when never called)
  calls,     \* history: how many setter calls the builder has received
  viewer,    \* history: the my_user_id given to create or read
  target,    \* history: the comment_id given to read
  ordered,   \* history: the rows of the executed query in ORDER BY order, before LIMIT/OFFSET
  fault,     \* history: the failure the storage layer raised for the query (NoFault when none)
  queries,   \* history: how many queries were sent over the connection
  result     \* the Result returned to the caller

vars == <<db, now, pc, op, builder, passed, calls, viewer, target, ordered, fault, queries, result>>

----------------------------------------------------------------------------
(* Option<T> *)

None == <<>>

Some(x) == <<x>>

is_some(o) == o # None

Unwrap(o) == o[1]

unwrap_or(o, d) == IF is_some(o) THEN Unwrap(o) ELSE d

Max(a, b) == IF a >= b THEN a ELSE b

Min(a, b) == IF a <= b THEN a ELSE b

----------------------------------------------------------------------------
(* Bounds of the model *)

\* the most setter calls one builder receives before list()
MaxSetters == 2

\* the largest page number passed to page()
MaxPage == 3

\* the largest in-range limit passed to limit()
MaxLimit == 2

----------------------------------------------------------------------------
(* The store.  Primary keys are unique and every foreign key resolves, as  *)
(* the schema's constraints guarantee; user ids are non-negative.          *)

UserIds == {0, 1}

CommunityIds == {1, 2}

CommentIds == {1, 2, 3}

UserTable ==
  { [id |-> 0, name |-> "ann", password_encrypted |-> "pw0", email |-> "ann@x"],
    [id |-> 1, name |-> "bob", password_encrypted |-> "pw1", email |-> "bob@x"] }

CommunityTable ==
  { [id |-> 1, name |-> "main", local |-> TRUE,  private_key |-> "k1"],
    [id |-> 2, name |-> "away", local |-> FALSE, private_key |-> "k2"] }

PostTable ==
  { [id |-> 1, community_id |-> 1, name |-> "p1"],
    [id |-> 2, community_id |-> 2, name |-> "p2"] }

\* comment 2 replies to comment 1 and is deleted; comment 3 is removed and
\* comes from another instance.  The publish times sit on the edges of the
\* TopYear, TopWeek and TopDay windows for the clock values of NowChoices.
CommentTable ==
  { [id |-> 1, creator_id |-> 0, post_id |-> 1, parent_id |-> None,
     content |-> <<"a", "b">>, removed |-> FALSE, read |-> TRUE,
     published |-> 0, deleted |-> FALSE, local |-> TRUE],
    [id |-> 2, creator_id |-> 1, post_id |-> 1, parent_id |-> Some(1),
     content |-> <<"b", "c">>, removed |-> FALSE, read |-> FALSE,
     published |-> 8592, deleted |-> TRUE, local |-> TRUE],
    [id |-> 3, creator_id |-> 0, post_id |-> 2, parent_id |-> None,
     content |-> <<"c">>, removed |-> TRUE, read |-> FALSE,
     published |-> 8736, deleted |-> FALSE, local |-> FALSE] }

\* one aggregate row per comment; the oldest comment has the highest score
\* and comments 2 and 3 tie
AggregateTable ==
  { [comment_id |-> 1, score |-> 5],
    [comment_id |-> 2, score |-> 1],
    [comment_id |-> 3, score |-> 1] }

\* the clock readings at which a query executes
NowChoices == {8759, 8760}

\* the viewer-fact rows a store may hold: user 0, who wrote comment 1 of
\* community 1, may be banned from the community, may follow it and may have
\* saved the comment; user 1 voted the comment down.
BanRows == { [community_id |-> 1, user_id |-> 0] }

FollowerRows == { [community_id |-> 1, user_id |-> 0] }

SavedRows == { [comment_id |-> 1, user_id |-> 0] }

LikeRows == { [comment_id |-> 1, user_id |-> 1, score |-> -1] }

MkStore(bans, followers, saveds, likes) ==
  [ comment            |-> CommentTable,
    user_              |-> UserTable,
    post               |-> PostTable,
    community          |-> CommunityTable,
    comment_aggregates |-> AggregateTable,
    community_user_ban |-> bans,
    community_follower |-> followers,
    comment_saved      |-> saveds,
    comment_like       |-> likes ]

Stores ==
  { MkStore(b, f, s, LikeRows) :
      b \in SUBSET BanRows, f \in SUBSET FollowerRows, s \in SUBSET SavedRows }

----------------------------------------------------------------------------
(* Safe projections *)

UserSafe(u) == [id |-> u.id, name |-> u.name]

CommunitySafe(c) == [id |-> c.id, name |-> c.name, local |-> c.local]

----------------------------------------------------------------------------
(* The join of read and create.  A left join contributes NULL when no row  *)
(* of the joined table satisfies its ON condition.                         *)

left_join(matches) == IF matches = {} THEN {None} ELSE {Some(m) : m \in matches}

SentinelZero(my_user_id) == unwrap_or(my_user_id, 0)

user_id_join(my_user_id) == unwrap_or(my_user_id, -1)

creator_join(store, c) == {u \in store.user_ : u.id = c.creator_id}

parent_join(store, c) ==
  left_join({p \in store.comment : is_some(c.parent_id) /\ p.id = Unwrap(c.parent_id)})

recipient_join_own_creator(store, c, parent) ==
  left_join({u \in store.user_ : is_some(parent) /\ u.id = c.creator_id})

recipient_join(store, c, parent) ==
  left_join({u \in store.user_ : is_some(parent) /\ u.id = Unwrap(parent).creator_id})

post_join(store, c) == {p \in store.post : p.id = c.post_id}

community_join(store, p) == {m \in store.community : p.community_id = m.id}

aggregates_join(store, c) == {a \in store.comment_aggregates : a.comment_id = c.id}

ban_join(store, c, m) ==
  left_join({b \in store.community_user_ban :
               m.id = b.community_id /\ b.user_id = c.creator_id})

follower_join(store, p, uid) ==
  left_join({f \in store.community_follower :
               p.community_id = f.community_id /\ f.user_id = uid})

saved_join_any_user(store, c, uid) ==
  left_join({s \in store.comment_saved : c.id = s.comment_id})

saved_join(store, c, uid) ==
  left_join({s \in store.comment_saved : c.id = s.comment_id /\ s.user_id = uid})

like_join(store, c, uid) ==
  left_join({l \in store.comment_like : c.id = l.comment_id /\ l.user_id = uid})

\* the joined rows (CommentViewTuple) that start from comment row c
JoinedRowsOf(store, c, uid) ==
  UNION { UNION { UNION { UNION { UNION { UNION {
    { [ comment   |-> c,
        creator   |-> UserSafe(u),
        parent    |-> pa,
        recipient |-> IF is_some(ru) THEN Some(UserSafe(Unwrap(ru))) ELSE None,
        post      |-> p,
        community |-> CommunitySafe(m),
        counts    |-> a,
        ban       |-> b,
        follower  |-> f,
        saved     |-> s,
        my_vote   |-> IF is_some(l) THEN Some(Unwrap(l).score) ELSE None ] :
      b \in ban_join(store, c, m), f \in follower_join(store, p, uid),
      s \in saved_join(store, c, uid), l \in like_join(store, c, uid) }
    : a \in aggregates_join(store, c) }
    : m \in community_join(store, p) }
    : p \in post_join(store, c) }
    : ru \in recipient_join(store, c, pa) }
    : pa \in parent_join(store, c) }
    : u \in creator_join(store, c) }

JoinedRows(store, uid) == UNION { JoinedRowsOf(store, c, uid) : c \in store.comment }

----------------------------------------------------------------------------
(* The row decoder *)

ToView(a) ==
  [ comment   |-> a.comment,
    creator   |-> a.creator,
    recipient |-> a.recipient,
    post      |-> a.post,
    community |-> a.community,
    counts    |-> a.counts,
    creator_banned_from_community |-> is_some(a.ban),
    subscribed |-> is_some(a.follower),
    saved      |-> is_some(a.saved),
    my_vote    |-> a.my_vote ]

to_vec(posts) == [i \in 1..Len(posts) |-> ToView(posts[i])]

----------------------------------------------------------------------------
(* CommentView::read *)

NoFault == "none"

NotFound == "NotFound"

\* the failures the storage layer can raise while executing a query
DbFaults == {"DatabaseError"}

Ok(v) == [ok |-> TRUE, val |-> v, err |-> NoFault]

Err(e) == [ok |-> FALSE, val |-> <<>>, err |-> e]

\* comment::table.find(comment_id) ... .first(conn)?  then Ok(CommentView {..})
ReadResults(store, comment_id, my_user_id, f) ==
  LET rows == {r \in JoinedRows(store, user_id_join(my_user_id)) : r.comment.id = comment_id}
  IN  IF f # NoFault THEN {Err(f)}
      ELSE IF rows = {} THEN {Err(NotFound)}
      ELSE {Ok(<<ToView(r)>>) : r \in rows}

----------------------------------------------------------------------------
(* CommentQueryBuilder *)

\* the listing types list() tells apart; any other is treated like All
ListingTypes == {"All", "Local", "Subscribed"}

SortTypes == {"Active", "Hot", "New", "TopDay", "TopWeek", "TopMonth", "TopYear", "TopAll"}

create(my_user_id) ==
  [ user_id_join       |-> user_id_join(my_user_id),
    listing_type       |-> "All",
    sort               |-> "New",
    for_community_id   |-> None,
    for_community_name |-> None,
    for_post_id        |-> None,
    for_creator_id     |-> None,
    for_recipient_id   |-> None,
    search_term        |-> None,
    saved_only         |-> FALSE,
    unread_only        |-> FALSE,
    page               |-> None,
    limit              |-> None ]

listing_type(b, v) == [b EXCEPT !.listing_type = v]

sort(b, v) == [b EXCEPT !.sort = v]

for_post_id(b, v) == [b EXCEPT !.for_post_id = v]

for_creator_id(b, v) == [b EXCEPT !.for_creator_id = v]

for_recipient_id_own_field(b, v) == [b EXCEPT !.for_recipient_id = v]

for_recipient_id(b, v) == [b EXCEPT !.for_creator_id = v]

for_community_id(b, v) == [b EXCEPT !.for_community_id = v]

for_community_name(b, v) == [b EXCEPT !.for_community_name = v]

search_term(b, v) == [b EXCEPT !.search_term = v]

saved_only(b, v) == [b EXCEPT !.saved_only = v]

unread_only(b, v) == [b EXCEPT !.unread_only = v]

page(b, v) == [b EXCEPT !.page = v]

limit(b, v) == [b EXCEPT !.limit = v]

----------------------------------------------------------------------------
(* Utilities of the crate used by list *)

DefaultPage == 1

DefaultLimit == 10

FetchLimitMax == 50

\* (limit, offset): offset = (page - 1) * limit, both defaulted when unset,
\* the limit clamped to the maximum
limit_and_offset(pg, lim) ==
  LET p == unwrap_or(pg, DefaultPage)
      l == Min(unwrap_or(lim, DefaultLimit), FetchLimitMax)
  IN  <<l, l * (p - 1)>>

\* content ILIKE '%term%': the term occurs in the content
fuzzy_match(content, term) ==
  \E i \in 1..(Len(content) - Len(term) + 1) :
     SubSeq(content, i, i + Len(term) - 1) = term

Gravity == 2

Sign(n) == IF n > 0 THEN 1 ELSE IF n < 0 THEN -1 ELSE 0

Abs(n) == IF n < 0 THEN -n ELSE n

\* the integer part of the base-2 logarithm (the base only scales the rank)
RECURSIVE Log2(_)
Log2(n) == IF n <= 1 THEN 0 ELSE 1 + Log2(n \div 2)

\* hot rank as the fraction <<numerator, denominator>>:
\* log(max(|score|, 1)) * sign(score) / (age_hours + 2)^gravity,
\* kept as a fraction so that two ranks are compared exactly
hot_rank(score, published, t) ==
  <<Log2(Max(Abs(score), 1)) * Sign(score), (Max(t - published, 0) + 2) ^ Gravity>>

RankGreater(r1, r2) == r1[1] * r2[2] > r2[1] * r1[2]

----------------------------------------------------------------------------
(* CommentQueryBuilder::list *)

\* 1.days(), 1.weeks(), 1.months(), 1.years() in hours (a month of 30 days,
\* a year of 365)
Day == 24

Week == 168

Month == 720

Year == 8760

recipient_filter(b, r) ==
  is_some(b.for_recipient_id) =>
    /\ is_some(r.recipient) /\ Unwrap(r.recipient).id = Unwrap(b.for_recipient_id)
    /\ r.comment.deleted = FALSE
    /\ r.comment.removed = FALSE

unread_filter(b, r) == b.unread_only => r.comment.read = FALSE

creator_filter(b, r) ==
  is_some(b.for_creator_id) => r.comment.creator_id = Unwrap(b.for_creator_id)

community_id_filter(b, r) ==
  is_some(b.for_community_id) => r.post.community_id = Unwrap(b.for_community_id)

community_name_filter(b, r) ==
  is_some(b.for_community_name) =>
    r.community.name = Unwrap(b.for_community_name) /\ r.comment.local = TRUE

post_filter(b, r) ==
  is_some(b.for_post_id) => r.comment.post_id = Unwrap(b.for_post_id)

search_filter(b, r) ==
  is_some(b.search_term) => fuzzy_match(r.comment.content, Unwrap(b.search_term))

listing_filter_local_for_subscribed(b, r) ==
  CASE b.listing_type = "Subscribed" -> r.community.local = TRUE
    [] b.listing_type = "Local"      -> r.community.local = TRUE
    [] OTHER                         -> TRUE

listing_filter(b, r) ==
  CASE b.listing_type = "Subscribed" -> is_some(r.follower)
    [] b.listing_type = "Local"      -> r.community.local = TRUE
    [] OTHER                         -> TRUE

saved_filter(b, r) == b.saved_only => is_some(r.saved)

sort_filter_day_as_week(b, r, t) ==
  CASE b.sort = "TopYear"  -> r.comment.published > t - Year
    [] b.sort = "TopMonth" -> r.comment.published > t - Month
    [] b.sort = "TopWeek"  -> r.comment.published > t - Week
    [] b.sort = "TopDay"   -> r.comment.published > t - Week
    [] OTHER               -> TRUE

sort_filter(b, r, t) ==
  CASE b.sort = "TopYear"  -> r.comment.published > t - Year
    [] b.sort = "TopMonth" -> r.comment.published > t - Month
    [] b.sort = "TopWeek"  -> r.comment.published > t - Week
    [] b.sort = "TopDay"   -> r.comment.published > t - Day
    [] OTHER               -> TRUE

\* the WHERE clauses list adds before it matches the sort
where(b, r) ==
  /\ recipient_filter(b, r)
  /\ unread_filter(b, r)
  /\ creator_filter(b, r)
  /\ community_id_filter(b, r)
  /\ community_name_filter(b, r)
  /\ post_filter(b, r)
  /\ search_filter(b, r)
  /\ listing_filter(b, r)
  /\ saved_filter(b, r)

\* the rows kept by the WHERE clauses added before the sort is matched
Matching(store, b) == { r \in JoinedRows(store, b.user_id_join) : where(b, r) }

\* the rows the whole WHERE clause keeps
Filtered(store, b, t) == { r \in Matching(store, b) : sort_filter(b, r, t) }

\* the rows of Filtered that start from comment row c
FilteredOf(store, b, t, c) ==
  { r \in JoinedRowsOf(store, c, b.user_id_join) : where(b, r) /\ sort_filter(b, r, t) }

order_by_without_then(b, x, y, t) ==
  CASE b.sort \in {"Hot", "Active"} ->
         RankGreater(hot_rank(x.counts.score, x.comment.published, t),
                     hot_rank(y.counts.score, y.comment.published, t))
    [] b.sort = "New" -> x.comment.published > y.comment.published
    [] OTHER          -> x.counts.score > y.counts.score

\* ORDER BY: TRUE when row x must come before row y
order_by(b, x, y, t) ==
  CASE b.sort \in {"Hot", "Active"} ->
         LET hx == hot_rank(x.counts.score, x.comment.published, t)
             hy == hot_rank(y.counts.score, y.comment.published, t)
         IN  \/ RankGreater(hx, hy)
             \/ (~RankGreater(hy, hx) /\ x.comment.published > y.comment.published)
    [] b.sort = "New" -> x.comment.published > y.comment.published
    [] OTHER          -> x.counts.score > y.counts.score

RECURSIVE Perms(_)
Perms(S) ==
  IF S = {} THEN {<<>>}
  ELSE UNION { {<<x>> \o p : p \in Perms(S \ {x})} : x \in S }

\* every order the storage layer may return the rows in: rows tied on the
\* ORDER BY key come in any order
Orderings(rows, b, t) ==
  { s \in Perms(rows) :
      \A i \in 1..Len(s) : \A j \in 1..Len(s) :
         i < j => ~order_by(b, s[j], s[i], t) }

limit_offset_swapped(rows, lim, off) == SubSeq(rows, lim + 1, Min(Len(rows), lim + off))

\* query.limit(limit).offset(offset)
limit_offset(rows, lim, off) == SubSeq(rows, off + 1, Min(Len(rows), off + lim))

load_first(f, rows) ==
  IF f # NoFault THEN Err(f)
  ELSE IF rows = <<>> THEN Err(NotFound)
  ELSE Ok(to_vec(rows))

\* .load::<CommentViewTuple>(self.conn)?  then Ok(CommentView::to_vec(res))
load(f, rows) == IF f # NoFault THEN Err(f) ELSE Ok(to_vec(rows))

list(b, ord, f) ==
  LET lo == limit_and_offset(b.page, b.limit)
  IN  load(f, limit_offset(ord, lo[1], lo[2]))

----------------------------------------------------------------------------
(* The state machine: callers of read, create, the setters and list *)

NoBuilder == <<>>

Viewers == {None} \cup {Some(u) : u \in UserIds}

OptUserIds == {None} \cup {Some(u) : u \in UserIds}

OptPostIds == {None, Some(1), Some(2)}

OptCommunityIds == {None} \cup {Some(c) : c \in CommunityIds}

OptCommunityNames == {None, Some("main"), Some("away")}

OptSearchTerms == {None, Some(<<"b">>)}

OptPages == {None} \cup {Some(p) : p \in 1..MaxPage}

OptLimits == {None, Some(FetchLimitMax + 1)} \cup {Some(l) : l \in 1..MaxLimit}

Init ==
  /\ db \in Stores
  /\ now = 0
  /\ pc = "idle"
  /\ op = "none"
  /\ builder = NoBuilder
  /\ passed = NoBuilder
  /\ calls = 0
  /\ viewer = None
  /\ target = 0
  /\ ordered = <<>>
  /\ fault = NoFault
  /\ queries = 0
  /\ result = Ok(<<>>)

Read ==
  /\ pc = "idle"
  /\ \E comment_id \in CommentIds \cup {4}, my_user_id \in Viewers, f \in {NoFault} \cup DbFaults :
       /\ result' \in ReadResults(db, comment_id, my_user_id, f)
       /\ viewer' = my_user_id
       /\ target' = comment_id
       /\ fault' = f
  /\ pc' = "done"
  /\ op' = "read"
  /\ queries' = queries + 1
  /\ UNCHANGED <<db, now, builder, passed, calls, ordered>>

Create ==
  /\ pc = "idle"
  /\ \E my_user_id \in Viewers :
       /\ builder' = create(my_user_id)
       /\ viewer' = my_user_id
  /\ passed' = [create(None) EXCEPT !.user_id_join = builder'.user_id_join]
  /\ pc' = "building"
  /\ UNCHANGED <<db, now, op, calls, target, ordered, fault, queries, result>>

Setter(b2, p2) ==
  /\ pc = "building"
  /\ calls < MaxSetters
  /\ builder' = b2
  /\ passed' = p2
  /\ calls' = calls + 1
  /\ UNCHANGED <<db, now, pc, op, viewer, target, ordered, fault, queries, result>>

SetListingType ==
  \E v \in ListingTypes : Setter(listing_type(builder, v), [passed EXCEPT !.listing_type = v])

SetSort ==
  \E v \in SortTypes : Setter(sort(builder, v), [passed EXCEPT !.sort = v])

SetForPostId ==
  \E v \in OptPostIds : Setter(for_post_id(builder, v), [passed EXCEPT !.for_post_id = v])

SetForCreatorId ==
  \E v \in OptUserIds : Setter(for_creator_id(builder, v), [passed EXCEPT !.for_creator_id = v])

SetForRecipientId ==
  \E v \in OptUserIds :
     Setter(for_recipient_id(builder, v), [passed EXCEPT !.for_recipient_id = v])

SetForCommunityId ==
  \E v \in OptCommunityIds :
     Setter(for_community_id(builder, v), [passed EXCEPT !.for_community_id = v])

SetForCommunityName ==
  \E v \in OptCommunityNames :
     Setter(for_community_name(builder, v), [passed EXCEPT !.for_community_name = v])

SetSearchTerm ==
  \E v \in OptSearchTerms : Setter(search_term(builder, v), [passed EXCEPT !.search_term = v])

SetSavedOnly ==
  \E v \in BOOLEAN : Setter(saved_only(builder, v), [passed EXCEPT !.saved_only = v])

SetUnreadOnly ==
  \E v \in BOOLEAN : Setter(unread_only(builder, v), [passed EXCEPT !.unread_only = v])

SetPage ==
  \E v \in OptPages : Setter(page(builder, v), [passed EXCEPT !.page = v])

SetLimit ==
  \E v \in OptLimits : Setter(limit(builder, v), [passed EXCEPT !.limit = v])

\* list(self): one query; a failure of the storage layer leaves no rows
List ==
  /\ pc = "building"
  /\ \/ \E t \in NowChoices :
          \E ord \in Orderings(Filtered(db, builder, t), builder, t) :
             /\ now' = t
             /\ ordered' = ord
             /\ fault' = NoFault
             /\ result' = list(builder, ord, NoFault)
     \/ \E f \in DbFaults :
          /\ fault' = f
          /\ result' = list(builder, <<>>, f)
          /\ UNCHANGED <<now, ordered>>
  /\ pc' = "done"
  /\ op' = "list"
  /\ queries' = queries + 1
  /\ UNCHANGED <<db, builder, passed, calls, viewer, target>>

Next ==
  \/ Read
  \/ Create
  \/ SetListingType
  \/ SetSort
  \/ SetForPostId
  \/ SetForCreatorId
  \/ SetForRecipientId
  \/ SetForCommunityId
  \/ SetForCommunityName
  \/ SetSearchTerm
  \/ SetSavedOnly
  \/ SetUnreadOnly
  \/ SetPage
  \/ SetLimit
  \/ List

Spec == Init /\ [][Next]_vars

----------------------------------------------------------------------------
(* The claims *)

Listed == pc = "done" /\ op = "list"

ReadDone == pc = "done" /\ op = "read"

\* the views handed back to the caller
Views == {result.val[i] : i \in 1..Len(result.val)}

\* the ids of the comments among a set of joined rows
Ids(rows) == {r.comment.id : r \in rows}

Range(s) == {s[i] : i \in 1..Len(s)}

\* C1, as stated: with no viewer (my_user_id = None) every view returned by
\* read or list has subscribed, saved and creator_banned_from_community false
\* and my_vote None, whatever rows the store holds.
C1_Original ==
  (pc = "done" /\ viewer = None /\ result.ok) =>
    \A v \in Views :
       /\ v.subscribed = FALSE
       /\ v.saved = FALSE
       /\ v.creator_banned_from_community = FALSE
       /\ v.my_vote = None

\* C1, amended: with no viewer every view returned by read or list has
\* subscribed and saved false and my_vote None whatever follower, saved and
\* like rows exist; creator_banned_from_community does not depend on the
\* viewer: it is true exactly when a ban row exists for the comment's creator
\* in the comment's community.
C1_NoViewerFacts ==
  (pc = "done" /\ viewer = None /\ result.ok) =>
    \A v \in Views :
       /\ v.subscribed = FALSE
       /\ v.saved = FALSE
       /\ v.my_vote = None
       /\ v.creator_banned_from_community =
            (\E x \in db.community_user_ban :
                x.community_id = v.post.community_id /\ x.user_id = v.comment.creator_id)

\* a view of comment 1 returned to no viewer while the store holds a ban, a
\* follower, a saved and a like row that concern it
C1_Witness ==
  /\ pc = "done" /\ viewer = None /\ result.ok
  /\ \E v \in Views : v.comment.id = 1
  /\ db.community_user_ban # {} /\ db.community_follower # {}
  /\ db.comment_saved # {} /\ db.comment_like # {}

\* C2, as stated: once for_recipient_id(Some(u)) was the last recipient passed
\* to the builder, list() returns only comments whose parent's author is u,
\* and none that is deleted or removed.
C2_RecipientOnly ==
  (Listed /\ result.ok /\ is_some(passed.for_recipient_id)) =>
    \A v \in Views :
       /\ is_some(v.recipient)
       /\ Unwrap(v.recipient).id = Unwrap(passed.for_recipient_id)
       /\ v.comment.deleted = FALSE
       /\ v.comment.removed = FALSE

\* C3, as stated: every configuration field of the builder holds the last
\* value passed to its own setter, or its default when that setter was never
\* called (each setter writes its own field and no other).
C3_SettersOwnField == builder = passed

\* C4: with listing_type Subscribed, list() returns only comments whose post's
\* community has a community_follower row for the effective viewer id, and
\* for a builder created with no viewer it returns nothing.
C4_SubscribedOnly ==
  (Listed /\ result.ok /\ builder.listing_type = "Subscribed") =>
    /\ \A v \in Views :
          \E f \in db.community_follower :
             f.community_id = v.post.community_id /\ f.user_id = unwrap_or(viewer, -1)
    /\ viewer = None => result.val = <<>>

\* a Subscribed listing that returns a comment of the community the viewer follows
C4_Witness ==
  /\ Listed /\ result.ok /\ builder.listing_type = "Subscribed"
  /\ viewer = Some(0)
  /\ \E v \in Views : v.comment.id = 1 /\ v.subscribed

\* C5: for viewer V, a returned view of comment c has saved true exactly when
\* a comment_saved row (c, V) exists, and my_vote is the score of V's
\* comment_like row on c, or None when V has none; other users' rows do not
\* count.
C5_ViewerFacts ==
  (pc = "done" /\ result.ok /\ is_some(viewer)) =>
    \A v \in Views :
       LET likes == {l \in db.comment_like :
                       l.comment_id = v.comment.id /\ l.user_id = Unwrap(viewer)}
       IN  /\ v.saved = (\E x \in db.comment_saved :
                            x.comment_id = v.comment.id /\ x.user_id = Unwrap(viewer))
           /\ IF likes = {} THEN v.my_vote = None
              ELSE v.my_vote \in {Some(l.score) : l \in likes}

\* viewer 1 gets comment 1 with its own vote and unsaved, although another
\* user saved that comment
C5_Witness ==
  /\ pc = "done" /\ result.ok /\ viewer = Some(1)
  /\ db.comment_saved # {}
  /\ \E v \in Views : v.comment.id = 1 /\ v.my_vote = Some(-1) /\ v.saved = FALSE

\* C6: in every returned view, recipient is None when the comment has no
\* parent, and when the parent comment and its author exist recipient is the
\* safe projection (id and name, no credentials) of the parent's author.
C6_Recipient ==
  (pc = "done" /\ result.ok) =>
    \A v \in Views :
       /\ v.comment.parent_id = None => v.recipient = None
       /\ \A p \in db.comment : \A u \in db.user_ :
            (is_some(v.comment.parent_id) /\ p.id = Unwrap(v.comment.parent_id)
               /\ u.id = p.creator_id)
            => v.recipient = Some([id |-> u.id, name |-> u.name])

\* the reply (comment 2, written by user 1) is returned to viewer 1 with
\* recipient user 0, the author of its parent
C6_Witness ==
  /\ pc = "done" /\ result.ok /\ viewer = Some(1)
  /\ \E v \in Views :
        /\ v.comment.id = 2 /\ v.creator.id = 1
        /\ is_some(v.recipient) /\ Unwrap(v.recipient).id = 0

\* C7: with page p and limit l (l within the maximum), list() returns exactly
\* the rows at offsets (p-1)*l .. p*l-1 of the query's ordered rows, as many
\* as exist; an offset at or past the end gives Ok with an empty vector.
C7_Pagination ==
  (Listed /\ fault = NoFault /\ is_some(builder.page) /\ is_some(builder.limit)
     /\ Unwrap(builder.limit) <= FetchLimitMax) =>
    LET p == Unwrap(builder.page)
        l == Unwrap(builder.limit)
        first == (p - 1) * l
        n == Max(0, Min(l, Len(ordered) - first))
    IN  /\ result = Ok([i \in 1..n |-> ToView(ordered[first + i])])
        /\ first >= Len(ordered) => result = Ok(<<>>)

\* page 2 with limit 2 over three ordered rows returns the third row alone
C7_Witness ==
  /\ Listed /\ result.ok
  /\ builder.page = Some(2) /\ builder.limit = Some(2)
  /\ Len(ordered) = 3 /\ Len(result.val) = 1
  /\ result.val[1].comment = ordered[3].comment

\* C8: TopDay, TopWeek, TopMonth and TopYear keep exactly the otherwise
\* matching comments published strictly within the trailing day, week, month
\* and year before the query's clock; TopAll, New, Hot and Active keep every
\* otherwise matching comment.
C8_TopWindows ==
  (Listed /\ fault = NoFault) =>
    LET age(r) == now - r.comment.published
        inWindow(r) ==
          CASE builder.sort = "TopDay"   -> age(r) < 24
            [] builder.sort = "TopWeek"  -> age(r) < 7 * 24
            [] builder.sort = "TopMonth" -> age(r) < 30 * 24
            [] builder.sort = "TopYear"  -> age(r) < 365 * 24
            [] OTHER                     -> TRUE
    IN  /\ \A r \in Matching(db, builder) : (r \in Range(ordered)) <=> inWindow(r)
        /\ \A v \in Views : inWindow(v)

\* TopDay with no other restriction at clock 8759: comment 3 (23 hours old)
\* is returned; comment 1, older and with the highest score, is not
C8_Witness ==
  /\ Listed /\ result.ok /\ builder.sort = "TopDay" /\ calls = 1 /\ now = 8759
  /\ Ids(Views) = {3}
  /\ \E a \in db.comment_aggregates : a.comment_id = 1 /\ a.score = 5

\* comment row c with its deleted flag (which = "deleted") or its removed
\* flag (which = "removed") inverted
Flipped(c, which) ==
  IF which = "deleted" THEN [c EXCEPT !.deleted = ~c.deleted]
  ELSE [c EXCEPT !.removed = ~c.removed]

\* the store with comment row c replaced by c2
WithComment(store, c, c2) ==
  [store EXCEPT !.comment = (store.comment \ {c}) \cup {c2}]

\* C9: for every builder reachable through the setters, inverting only a
\* comment's deleted flag, or only its removed flag, does not change whether
\* list() selects that comment, and read() finds the comment either way.
C9_FlagsNotFiltered ==
  /\ (Listed /\ fault = NoFault) =>
       \A c \in db.comment : \A which \in {"deleted", "removed"} :
          LET c2 == Flipped(c, which)
          IN  (FilteredOf(WithComment(db, c, c2), builder, now, c2) # {})
                <=> (c.id \in Ids(Range(ordered)))
  /\ (ReadDone /\ fault = NoFault) =>
       \A c \in db.comment : \A which \in {"deleted", "removed"} :
          c.id = target =>
            /\ result.ok
            /\ \A res \in ReadResults(WithComment(db, c, Flipped(c, which)),
                                      target, viewer, NoFault) :
                 res.ok /\ res.val[1].comment.id = target

\* after for_recipient_id(Some(1)), list() returns the deleted comment 2
C9_Witness ==
  /\ Listed /\ result.ok /\ passed.for_recipient_id = Some(1)
  /\ \E v \in Views : v.comment.id = 2 /\ v.comment.deleted

\* C10: read returns Err(NotFound) when no joined row has the given id and Ok
\* with one view of that comment otherwise; list returns Ok, with an empty
\* vector when no row matches; a failure of the storage layer is returned as
\* it is, after a single query, with no views.
C10_Errors ==
  /\ pc = "done" => queries = 1
  /\ (pc = "done" /\ fault # NoFault) => result = Err(fault) /\ result.val = <<>>
  /\ (ReadDone /\ fault = NoFault) =>
       IF target \in Ids(JoinedRows(db, unwrap_or(viewer, -1)))
       THEN result.ok /\ Len(result.val) = 1 /\ result.val[1].comment.id = target
       ELSE result.ok = FALSE /\ result.err = NotFound
  /\ (Listed /\ fault = NoFault) =>
       /\ result.ok
       /\ Filtered(db, builder, now) = {} => result = Ok(<<>>)

\* community id 2 together with the name of community 1: list returns Ok
\* with no views
C10_Witness ==
  /\ Listed /\ fault = NoFault
  /\ builder.for_community_id = Some(2) /\ builder.for_community_name = Some("main")
  /\ result = Ok(<<>>)

\* C11: the views list() returns are in the order of the sort's key: for New
\* publish times do not increase; for TopAll, TopYear, TopMonth, TopWeek and
\* TopDay scores do not increase; for Hot and Active alike the hot rank does
\* not increase and adjacent views of equal hot rank have publish times that
\* do not increase.  A builder that received no setter call sorts by New.
C11_SortOrder ==
  /\ (pc \in {"building", "done"} /\ op # "read" /\ calls = 0) => builder.sort = "New"
  /\ (Listed /\ result.ok) =>
       \A i \in 1..(Len(result.val) - 1) :
          LET x  == result.val[i]
              y  == result.val[i + 1]
              hx == hot_rank(x.counts.score, x.comment.published, now)
              hy == hot_rank(y.counts.score, y.comment.published, now)
          IN  CASE builder.sort = "New" -> x.comment.published >= y.comment.published
                [] builder.sort \in {"Hot", "Active"} ->
                     /\ hx[1] * hy[2] >= hy[1] * hx[2]
                     /\ hx[1] * hy[2] = hy[1] * hx[2]
                          => x.comment.published >= y.comment.published
                [] builder.sort \in {"TopAll", "TopYear", "TopMonth", "TopWeek", "TopDay"} ->
                     x.counts.score >= y.counts.score

\* a Hot listing of all three comments: comment 1 (the only positive rank)
\* first, then comments 3 and 2, equal in rank, newest first
C11_Witness ==
  /\ Listed /\ result.ok /\ builder.sort = "Hot"
  /\ Len(result.val) = 3
  /\ result.val[1].comment.id = 1
  /\ result.val[2].comment.id = 3
  /\ result.val[3].comment.id = 2

====
